---- MODULE Spec2Model ----
(***************************************************************************)
(* Model of the concurrent block-copy engine of FileBackup:                *)
(*   BlockCopier::Initialize / StartCopy / WorkerThreadLoop                *)
(*   IOUtils::IssueRead / IssueWrite / OnReadCompletion / OnWriteCompletion*)
(* together with the operating-system services the engine consumes         *)
(* (overlapped ReadFileEx / WriteFileEx, the per-thread APC queue drained  *)
(* by SleepEx(INFINITE, TRUE), QueueUserAPC, FlushFileBuffers).            *)
(*                                                                         *)
(* Sizes are in model bytes: one "MB" of the program is MiB model bytes    *)
(* and a DWORD has DwordBits bits, so that the whole copy of a small       *)
(* source can be enumerated.                                               *)
(*                                                                         *)
(* Every step of a worker or of the controlling thread performs at most    *)
(* one access to a shared atomic that influences control flow; accesses    *)
(* to the worker's own context are folded into the neighbouring step       *)
(* because a context is touched only by the thread that owns it.           *)
(***************************************************************************)
EXTENDS Integers, Sequences, FiniteSets, TLC

\* ------------------------------------------------------------------ bounds
MaxThreads == 3      \* largest nThreads passed to Initialize that is accepted
MaxThreadsAny == 2   \* the same, on the device that may report any completion
MaxBlockMB == 2      \* largest blockSizeMB passed to Initialize
MaxSrc     == 3      \* largest source length (model bytes)
MiB        == 2      \* model bytes per "MB" of the program
SectorSize == 2      \* sector size the destination device reports
DwordBits  == 3      \* width of a DWORD in the model

\* ------------------------------------------------------- program constants
MAX_THREADS     == 64   \* upper limit on nThreads checked by Initialize
FALLBACK_SECTOR == 2    \* the 4096-byte fallback sector size, in model bytes

DwordMod == 2 ^ DwordBits

\* ----------------------------------------------------------------- state
VARIABLES
    \* BlockCopier members
    m_hSrc, m_hDest,          \* "INVALID" | "open" | "closed"
    m_srcFileSize, m_destCapacity, m_destSectorSize,
    m_numOfThreads, m_blockSize,
    m_cntxts,                 \* sequence of IOContext records
    m_bytesReadTotal, m_bytesWrittenTotal,
    \* IOUtils members
    m_pendingIOs, m_fileOffset, m_readComplete, m_errOccurred,
    \* threads
    ctl,                      \* position of the controlling thread
    apcIdx,                   \* loop index i of the QueueUserAPC loop
    result,                   \* return value of the last call ("none" before)
    pc,                       \* position of each worker thread
    loc,                      \* locals of each worker thread
    \* operating system
    io,                       \* outstanding overlapped operations per context
    apcq,                     \* user APC queue per worker thread
    dest,                     \* content of the destination device
    device,                   \* "exact" | "any": behaviour of the source device
    \* observation (history) variables
    claimed,                  \* successful claims <<offset, length>>, in order
    writeCount,               \* number of writes submitted per offset
    readCount,                \* number of reads submitted per offset
    failSeen,                 \* an I/O failure other than EOF was reported
    woken,                    \* workers QueueUserAPC was called for
    flushed,                  \* "no" | "ok" | "failed": FlushFileBuffers outcome
    lastEv,                   \* last I/O event of each context
    initArgs                  \* arguments of the Initialize call that returned

engineVars == <<m_hSrc, m_hDest, m_srcFileSize, m_destCapacity,
                m_destSectorSize, m_numOfThreads, m_blockSize>>
atomVars   == <<m_pendingIOs, m_fileOffset, m_readComplete, m_errOccurred>>
totalVars  == <<m_bytesReadTotal, m_bytesWrittenTotal>>
ctlVars    == <<ctl, apcIdx, result>>
osVars     == <<io, apcq, dest, device>>
runHist    == <<claimed, writeCount, readCount, failSeen, woken, flushed,
                lastEv>>
histVars   == <<runHist, initArgs>>
vars == <<engineVars, atomVars, totalVars, ctlVars, m_cntxts, pc, loc,
          osVars, histVars>>

\* ------------------------------------------------------------- helpers
Min(a, b) == IF a < b THEN a ELSE b

\* ceil(n / d) * d
RoundUp(n, d) == ((n + d - 1) \div d) * d

MaxBlock  == MaxBlockMB * MiB
MaxDest   == RoundUp(MaxSrc, SectorSize) + MaxBlock
Offsets   == 0 .. (MaxDest - 1)

\* The source device: byte o of the source.  Every byte is non-zero and
\* differs from its neighbours, so a zero pad byte, a byte copied to the
\* wrong offset and a byte never written are all distinguishable.
SrcByte(o) == o + 1
Junk == -1                       \* previous content of the destination

Workers == 1 .. MaxThreads

\* mutant of NewContext: the buffer is one byte shorter than the block
NewContext_Short(bSize) ==
    [buf |-> [i \in 0 .. (bSize - 2) |-> 0], bufSize |-> bSize - 1,
     completed |-> FALSE, readOffset |-> 0, bytesTransferred |-> 0,
     Offset |-> 0, OffsetHigh |-> 0]

\* IOContext::IOContext(DWORD bSize): VirtualAlloc returns zeroed pages
NewContext(bSize) ==
    [buf |-> [i \in 0 .. (bSize - 1) |-> 0], bufSize |-> bSize,
     completed |-> FALSE, readOffset |-> 0, bytesTransferred |-> 0,
     Offset |-> 0, OffsetHigh |-> 0]

\* locals of a worker: bytesToRead of IssueRead, and the arguments of the
\* completion routine being run; reset when they go out of scope
NoLoc == [bytesToRead |-> 0, errCode |-> "SUCCESS", nBytes |-> 0]

\* initArgs while no Initialize call is being observed: before the call, and
\* again once StartCopy has been entered
NoArgs ==
    [called |-> FALSE, again |-> FALSE, nThreads |-> 0, blockSizeMB |-> 0, srcOpen |-> FALSE,
     destOpen |-> FALSE, srcSize |-> 0, destCap |-> 0, sector |-> 0,
     proceed |-> FALSE, badAt |-> 0]

\* ------------------------------------------------------------------ Init
\* BlockCopier::BlockCopier() and IOUtils::IOUtils()
Constructed ==
    /\ m_hSrc = "INVALID" /\ m_hDest = "INVALID"
    /\ m_srcFileSize = 0 /\ m_destCapacity = 0 /\ m_destSectorSize = 0
    /\ m_numOfThreads = 4
    /\ m_blockSize = MiB
    /\ m_cntxts = << >>
    /\ m_bytesReadTotal = 0 /\ m_bytesWrittenTotal = 0
    /\ m_pendingIOs = 0 /\ m_fileOffset = 0
    /\ m_readComplete = FALSE /\ m_errOccurred = FALSE
    /\ ctl = "new" /\ apcIdx = 0 /\ result = "none"
    /\ pc = [w \in Workers |-> "idle"]
    /\ loc = [w \in Workers |-> NoLoc]
    /\ io = [w \in Workers |-> << >>]
    /\ apcq = [w \in Workers |-> << >>]
    /\ dest = [o \in Offsets |-> Junk]
    /\ claimed = << >>
    /\ writeCount = [o \in Offsets |-> 0]
    /\ readCount = [o \in Offsets |-> 0]
    /\ failSeen = FALSE
    /\ woken = {}
    /\ flushed = "no"
    /\ lastEv = [w \in Workers |-> "none"]
    /\ initArgs = NoArgs

\* the engine on a source device that holds exactly m_srcFileSize bytes
Init == Constructed /\ device = "exact"

\* the engine on a source device that may report any completion ReadFileEx
\* allows: fewer bytes than requested, and end-of-file
InitAny == Constructed /\ device = "any"

\* ------------------------------------------------------------- Initialize
\* static_cast<DWORD>(x)
ToDword(x) == x % DwordMod

\* m_blockSize = static_cast<DWORD>(blockSizeMB) * 1024 * 1024  (DWORD product)
BlockSizeOf(blockSizeMB) == (ToDword(blockSizeMB) * MiB) % DwordMod

ThreadInputs ==
    (0 .. (IF device = "any" THEN Min(MaxThreadsAny, MaxThreads) ELSE MaxThreads))
        \cup {MAX_THREADS + 1}
BlockInputs  == (0 .. MaxBlockMB) \cup {DwordMod \div MiB, (DwordMod \div MiB) + 1}
\* lengths GetDiskOrDriveSize may report for the destination (0 = failure)
DestCaps == 0 .. MaxSrc

\* mutant of CapacityTooSmall: a destination of exactly the source's size is
\* taken for too small
CapacityTooSmall_OrEqual(destCap, srcSize) == destCap <= srcSize

\* BlockCopier.cpp:132  if (m_destCapacity < m_srcFileSize)
CapacityTooSmall(destCap, srcSize) == destCap < srcSize

InitReturn(ok) ==
    /\ ctl' = (IF ok THEN "inited" ELSE "initfail")
    /\ result' = (IF ok THEN "init_true" ELSE "init_false")

\* bool BlockCopier::Initialize(srcPath, destPath, nThreads, blockSizeMB)
\*   srcOpen, destOpen : CreateFileW succeeds
\*   srcSize, destCap  : GetDiskOrDriveSize results (0 = query failed)
\*   sector            : GetVolumeSectorSize result (0 = query failed)
\*   proceed           : the user's answer to the fallback prompt
\*   badAt             : index of the context whose buffer is bad (0 = none)
\*   badKind           : "alloc" (VirtualAlloc failed) or "align"
Initialize(nThreads, blockSizeMB, srcOpen, destOpen, srcSize, destCap, sector, proceed, badAt, badKind) ==
    /\ m_numOfThreads' = nThreads
    /\ m_blockSize' = BlockSizeOf(blockSizeMB)
    /\ initArgs' = [called |-> TRUE, again |-> initArgs.called,
                     nThreads |-> nThreads,
                     blockSizeMB |-> blockSizeMB, srcOpen |-> srcOpen,
                     destOpen |-> destOpen, srcSize |-> srcSize,
                     destCap |-> destCap, sector |-> sector,
                     proceed |-> proceed, badAt |-> badAt]
    /\ UNCHANGED <<atomVars, totalVars, apcIdx, pc, loc, osVars, runHist>>
    /\ IF nThreads <= 0 \/ nThreads > MAX_THREADS \/ m_blockSize' = 0
       THEN /\ InitReturn(FALSE)
            /\ UNCHANGED <<m_hSrc, m_hDest, m_srcFileSize, m_destCapacity,
                           m_destSectorSize, m_cntxts>>
       ELSE IF ~srcOpen
       THEN /\ InitReturn(FALSE)
            /\ m_hSrc' = "INVALID"
            /\ UNCHANGED <<m_hDest, m_srcFileSize, m_destCapacity,
                           m_destSectorSize, m_cntxts>>
       ELSE IF ~destOpen
       THEN /\ InitReturn(FALSE)
            /\ m_hSrc' = "closed" /\ m_hDest' = "INVALID"
            /\ UNCHANGED <<m_srcFileSize, m_destCapacity,
                           m_destSectorSize, m_cntxts>>
       ELSE IF srcSize = 0
       THEN /\ InitReturn(FALSE)
            /\ m_hSrc' = "closed" /\ m_hDest' = "closed"
            /\ m_srcFileSize' = 0
            /\ UNCHANGED <<m_destCapacity, m_destSectorSize, m_cntxts>>
       ELSE IF destCap = 0 \/ CapacityTooSmall(destCap, srcSize)
       THEN /\ InitReturn(FALSE)
            /\ m_hSrc' = "closed" /\ m_hDest' = "closed"
            /\ m_srcFileSize' = srcSize /\ m_destCapacity' = destCap
            /\ UNCHANGED <<m_destSectorSize, m_cntxts>>
       ELSE IF sector = 0 /\ ~proceed
       THEN /\ InitReturn(FALSE)
            /\ m_hSrc' = "closed" /\ m_hDest' = "closed"
            /\ m_srcFileSize' = srcSize /\ m_destCapacity' = destCap
            /\ m_destSectorSize' = 0
            /\ UNCHANGED m_cntxts
       ELSE
            /\ m_srcFileSize' = srcSize /\ m_destCapacity' = destCap
            /\ m_destSectorSize' = (IF sector = 0 THEN FALLBACK_SECTOR ELSE sector)
            /\ IF m_blockSize' % m_destSectorSize' # 0
               THEN /\ InitReturn(FALSE)
                    /\ m_hSrc' = "closed" /\ m_hDest' = "closed"
                    /\ UNCHANGED m_cntxts
               ELSE IF badAt \in 1 .. nThreads
               THEN \* contexts before the bad one were already pushed
                    /\ InitReturn(FALSE)
                    /\ m_cntxts' = [i \in 1 .. (badAt - 1) |-> NewContext(m_blockSize')]
                    /\ IF badKind = "alloc"
                       THEN m_hSrc' = "open" /\ m_hDest' = "open"
                       ELSE m_hSrc' = "closed" /\ m_hDest' = "closed"
               ELSE /\ InitReturn(TRUE)
                    /\ m_hSrc' = "open" /\ m_hDest' = "open"
                    /\ m_cntxts' = [i \in 1 .. nThreads |-> NewContext(m_blockSize')]

DoInitialize ==
    /\ ctl = "new"
    /\ \E nThreads \in ThreadInputs, blockSizeMB \in BlockInputs,
       srcOpen \in BOOLEAN, destOpen \in BOOLEAN,
       srcSize \in 0 .. MaxSrc, sector \in {0, SectorSize},
       proceed \in BOOLEAN, badAt \in 0 .. 1, badKind \in {"alloc", "align"},
       destCap \in DestCaps :
        Initialize(nThreads, blockSizeMB, srcOpen, destOpen, srcSize, destCap,
                   sector, proceed, badAt, badKind)

\* A second call of Initialize on the same engine, after a call that returned
\* true and before StartCopy.  The members keep what the earlier call left in
\* them until the second call assigns them.  The arguments and environment of
\* the second call are drawn from the extreme values of each input.
DoReinitialize ==
    /\ ctl = "inited" /\ ~initArgs.again
    /\ \E nThreads \in {0, 1, MaxThreads}, blockSizeMB \in {0, 1},
          srcOpen \in BOOLEAN, destOpen \in BOOLEAN,
          srcSize \in {0, MaxSrc}, sector \in {0, SectorSize},
          proceed \in BOOLEAN, badAt \in 0 .. 1, badKind \in {"alloc", "align"},
          destCap \in {0, 1, MaxSrc} :
        Initialize(nThreads, blockSizeMB, srcOpen, destOpen, srcSize, destCap,
                   sector, proceed, badAt, badKind)

\* ------------------------------------------------------ operating system
\* device = "exact": the source really holds m_srcFileSize bytes, so a read
\* inside the device either transfers exactly the requested bytes or fails.
\* device = "any": ReadFileEx may also fail with ERROR_HANDLE_EOF, and a read
\* completion may report success or ERROR_HANDLE_EOF with any number of bytes
\* up to the number requested.
\* A write either transfers the requested bytes or fails.  A handle that is
\* not open rejects every submission.
ReadSubmitOutcomes ==
    IF m_hSrc # "open" THEN {"ERROR"}
    ELSE IF device = "any" THEN {"ok", "ERROR", "EOF"}
    ELSE {"ok", "ERROR"}
WriteSubmitOutcomes == IF m_hDest = "open" THEN {"ok", "ERROR"} ELSE {"ERROR"}

\* <<errCode, numOfBytesTransfered>> a completion of operation op may report
CompletionOutcomes(op) ==
    IF device = "any" /\ op.kind = "read"
    THEN {<<"SUCCESS", n>> : n \in 0 .. op.len}
            \cup {<<"EOF", n>> : n \in 0 .. op.len} \cup {<<"ERROR", 0>>}
    ELSE {<<"SUCCESS", op.len>>, <<"ERROR", 0>>}

\* mutant of OvOffset: the offset of the OVERLAPPED structure is left at zero
OvOffset_Unset(cx) == 0

\* the 64-bit offset held in OVERLAPPED.Offset / OffsetHigh
OvOffset(cx) == cx.OffsetHigh * DwordMod + cx.Offset

\* ops without its first completed operation of the given kind and offset:
\* the operation whose completion routine is being run
RemoveCompleted(ops, kind, off) ==
    LET hits == {i \in 1 .. Len(ops) : ops[i].st = "completed"
                    /\ ops[i].kind = kind /\ ops[i].off = off}
    IN  IF hits = {} THEN ops
        ELSE LET k == CHOOSE i \in hits : \A j \in hits : i <= j
             IN  SubSeq(ops, 1, k - 1) \o SubSeq(ops, k + 1, Len(ops))

\* The device finishes the i-th operation outstanding on context c: the data
\* is transferred and the completion routine is queued as a user APC to the
\* thread that submitted the operation.  I/O of an exited thread is cancelled.
CompleteIO(c) ==
    /\ pc[c] # "done"
    /\ \E i \in 1 .. Len(io[c]) :
         LET op == io[c][i] IN
         /\ op.st = "pending"
         /\ \E out \in CompletionOutcomes(op) :
              /\ io' = [io EXCEPT ![c][i].st = "completed"]
              /\ apcq' = [apcq EXCEPT ![c] = Append(@, [kind |-> op.kind,
                              off |-> op.off, errCode |-> out[1], nBytes |-> out[2]])]
              /\ failSeen' = (failSeen \/ out[1] = "ERROR")
              /\ IF op.kind = "read"
                 THEN /\ m_cntxts' = [m_cntxts EXCEPT ![c].buf =
                            [j \in DOMAIN @ |-> IF j < out[2]
                                                 THEN SrcByte(op.off + j) ELSE @[j]]]
                      /\ dest' = dest
                 ELSE IF op.kind = "write" /\ out[1] = "SUCCESS"
                 THEN /\ dest' = [o \in Offsets |->
                            IF o >= op.off /\ o < op.off + out[2]
                            THEN m_cntxts[c].buf[o - op.off] ELSE dest[o]]
                      /\ m_cntxts' = m_cntxts
                 ELSE UNCHANGED <<dest, m_cntxts>>
    /\ UNCHANGED <<engineVars, atomVars, totalVars, ctlVars, pc, loc, device,
                   claimed, writeCount, readCount, woken, flushed, lastEv,
                   initArgs>>

\* ------------------------------------------------------------- IssueRead
\* return from IssueRead to its caller in WorkerThreadLoop:
\*   line 24 (initial read): false -> the thread function returns
\*   line 48 (in the loop): false -> break (lines 50-58 break either way)
\*   true -> the loop condition is evaluated next
AfterIssueRead(w, ok) == IF ok THEN "lc_err" ELSE "done"

\* mutant of LatchSet: only the error latch stops IssueRead
LatchSet_ErrorOnly(readComplete, errOccurred) == errOccurred

\* IOUtils.cpp:49  m_readComplete.load() || m_errOccurred.load()
LatchSet(readComplete, errOccurred) == readComplete \/ errOccurred

\* IOUtils.cpp:49  the two latch loads.  Both latches only go from false to
\* true while workers run, so the two loads equal one load of the pair.
IR_Check(w) ==
    /\ pc[w] = "ir_check"
    /\ pc' = [pc EXCEPT ![w] = IF LatchSet(m_readComplete, m_errOccurred)
                               THEN AfterIssueRead(w, FALSE) ELSE "ir_claim"]
    /\ UNCHANGED <<engineVars, atomVars, totalVars, ctlVars, m_cntxts, loc,
                   osVars, histVars>>

\* mutant of BytesToRead: the last block is not clamped to the source size
BytesToRead_Unclamped(curOffset, blockSize, totalFileSize) == blockSize

\* bytes to read for a claim at curOffset (IOUtils.cpp:64-67)
BytesToRead(curOffset, blockSize, totalFileSize) ==
    IF curOffset + blockSize > totalFileSize
    THEN ToDword(totalFileSize - curOffset) ELSE blockSize

\* mutants of ClaimAdvance: a claim that skips a block, and one that advances
\* by one byte less than the block size
ClaimAdvance_Skip(fileOffset, blockSize) == fileOffset + 2 * blockSize
ClaimAdvance_Short(fileOffset, blockSize) == fileOffset + blockSize - 1

\* the value m_fileOffset.fetch_add(blockSize) leaves behind
ClaimAdvance(fileOffset, blockSize) == fileOffset + blockSize

\* IOUtils.cpp:56-79  the claim (fetch_add) and the set-up of the context
IR_Claim(w) ==
    /\ pc[w] = "ir_claim"
    /\ LET curOffset   == m_fileOffset
           bytesToRead == BytesToRead(curOffset, m_blockSize, m_srcFileSize)
       IN  /\ m_fileOffset' = ClaimAdvance(m_fileOffset, m_blockSize)
           /\ IF curOffset >= m_srcFileSize \/ bytesToRead = 0
              THEN /\ pc' = [pc EXCEPT ![w] = "ir_eof"]
                   /\ UNCHANGED <<m_cntxts, loc, claimed>>
              ELSE /\ pc' = [pc EXCEPT ![w] = "ir_submit"]
                   /\ m_cntxts' = [m_cntxts EXCEPT
                          ![w].Offset = curOffset % DwordMod,
                          ![w].OffsetHigh = curOffset \div DwordMod,
                          ![w].completed = FALSE,
                          ![w].readOffset = curOffset,
                          ![w].bytesTransferred = 0]
                   /\ loc' = [loc EXCEPT ![w].bytesToRead = bytesToRead]
                   /\ claimed' = Append(claimed, <<curOffset, bytesToRead>>)
    /\ UNCHANGED <<engineVars, m_pendingIOs, m_readComplete, m_errOccurred,
                   totalVars, ctlVars, osVars, writeCount, readCount, failSeen,
                   woken, flushed, lastEv, initArgs>>

\* IOUtils.cpp:59 / 69  m_readComplete.store(true); return false
IR_Eof(w) ==
    /\ pc[w] = "ir_eof"
    /\ m_readComplete' = TRUE
    /\ pc' = [pc EXCEPT ![w] = AfterIssueRead(w, FALSE)]
    /\ UNCHANGED <<engineVars, m_pendingIOs, m_fileOffset, m_errOccurred,
                   totalVars, ctlVars, m_cntxts, loc, osVars, histVars>>

\* IOUtils.cpp:81-83  m_pendingIOs.fetch_add(1); ReadFileEx(...)
IR_Submit(w) ==
    /\ pc[w] = "ir_submit"
    /\ m_pendingIOs' = m_pendingIOs + 1
    /\ \E out \in ReadSubmitOutcomes :
         IF out = "ok"
         THEN /\ io' = [io EXCEPT ![w] = Append(@, [kind |-> "read",
                          off |-> OvOffset(m_cntxts[w]),
                          len |-> loc[w].bytesToRead, st |-> "pending"])]
              /\ pc' = [pc EXCEPT ![w] = AfterIssueRead(w, TRUE)]
              /\ loc' = [loc EXCEPT ![w] = NoLoc]
              /\ lastEv' = [lastEv EXCEPT ![w] = "read_submitted"]
              /\ readCount' = [readCount EXCEPT ![OvOffset(m_cntxts[w])] = @ + 1]
         ELSE /\ io' = io
              /\ pc' = [pc EXCEPT ![w] = "ir_fail"]
              /\ loc' = [loc EXCEPT ![w] = [NoLoc EXCEPT !.errCode = out]]
              /\ lastEv' = lastEv
              /\ readCount' = readCount
    /\ UNCHANGED <<engineVars, m_fileOffset, m_readComplete, m_errOccurred,
                   totalVars, ctlVars, m_cntxts, apcq, dest, device,
                   claimed, writeCount, failSeen, woken, flushed, initArgs>>

\* mutant of ReadFailIsError: end-of-file is handled like any other failure
ReadFailIsError_Always(err) == TRUE

\* IOUtils.cpp:86  if (err != ERROR_HANDLE_EOF)
ReadFailIsError(err) == err # "EOF"

\* IOUtils.cpp:84-92  the latch set after an immediate ReadFileEx failure
IR_Fail(w) ==
    /\ pc[w] = "ir_fail"
    /\ IF ReadFailIsError(loc[w].errCode)
       THEN m_errOccurred' = TRUE /\ m_readComplete' = m_readComplete
       ELSE m_readComplete' = TRUE /\ m_errOccurred' = m_errOccurred
    /\ pc' = [pc EXCEPT ![w] = "ir_dec"]
    /\ loc' = [loc EXCEPT ![w] = NoLoc]
    /\ UNCHANGED <<engineVars, m_pendingIOs, m_fileOffset, totalVars, ctlVars,
                   m_cntxts, osVars, histVars>>

\* IOUtils.cpp:93-94  m_pendingIOs.fetch_sub(1); return false
IR_Dec(w) ==
    /\ pc[w] = "ir_dec"
    /\ m_pendingIOs' = m_pendingIOs - 1
    /\ pc' = [pc EXCEPT ![w] = AfterIssueRead(w, FALSE)]
    /\ UNCHANGED <<engineVars, m_fileOffset, m_readComplete, m_errOccurred,
                   totalVars, ctlVars, m_cntxts, loc, osVars, histVars>>

\* ------------------------------------------------------ WorkerThreadLoop
\* BlockCopier.cpp:31  first operand of the loop condition
LC_Err(w) ==
    /\ pc[w] = "lc_err"
    /\ pc' = [pc EXCEPT ![w] = IF m_errOccurred THEN "done" ELSE "lc_rc"]
    /\ UNCHANGED <<engineVars, atomVars, totalVars, ctlVars, m_cntxts, loc,
                   osVars, histVars>>

\* BlockCopier.cpp:32  getReadCompleteInfo()
LC_ReadComplete(w) ==
    /\ pc[w] = "lc_rc"
    /\ pc' = [pc EXCEPT ![w] = IF m_readComplete THEN "lc_pend" ELSE "sleep"]
    /\ UNCHANGED <<engineVars, atomVars, totalVars, ctlVars, m_cntxts, loc,
                   osVars, histVars>>

\* BlockCopier.cpp:32  getPendingIOs() == 0
LC_Pending(w) ==
    /\ pc[w] = "lc_pend"
    /\ pc' = [pc EXCEPT ![w] = IF m_pendingIOs = 0 THEN "done" ELSE "sleep"]
    /\ UNCHANGED <<engineVars, atomVars, totalVars, ctlVars, m_cntxts, loc,
                   osVars, histVars>>

\* BlockCopier.cpp:35  SleepEx(INFINITE, TRUE): the thread is alertable and
\* the head of its APC queue is delivered.  For an I/O completion the step
\* runs StaticRead/WriteCompletion up to and including
\* m_pendingIOs.fetch_sub(1) (IOUtils.cpp:143 / 207); removing the head of
\* the thread's own queue commutes with every step of another thread.
\* "cbret" is the return of a completion routine, after which further
\* queued APCs are delivered before SleepEx returns.
DeliverAPC(w) ==
    /\ pc[w] \in {"sleep", "cbret"}
    /\ apcq[w] # << >>
    /\ LET apc == Head(apcq[w])
       IN  /\ apcq' = [apcq EXCEPT ![w] = Tail(@)]
           /\ pc' = [pc EXCEPT ![w] = CASE apc.kind = "read"  -> "rc_body"
                                        [] apc.kind = "write" -> "wc_body"
                                        [] OTHER              -> "cbret"]
           /\ loc' = [loc EXCEPT ![w].errCode = apc.errCode,
                                 ![w].nBytes = apc.nBytes]
           /\ io' = IF apc.kind = "dummy" THEN io
                    ELSE [io EXCEPT ![w] = RemoveCompleted(@, apc.kind, apc.off)]
           /\ m_pendingIOs' = IF apc.kind = "dummy" THEN m_pendingIOs
                              ELSE m_pendingIOs - 1
           /\ lastEv' = CASE apc.kind = "read"  ->
                                [lastEv EXCEPT ![w] = "read_completed"]
                           [] apc.kind = "write" ->
                                [lastEv EXCEPT ![w] = "write_completed"]
                           [] OTHER              -> lastEv
    /\ UNCHANGED <<engineVars, m_fileOffset, m_readComplete, m_errOccurred,
                   totalVars, ctlVars, m_cntxts, dest, device,
                   claimed, writeCount, readCount, failSeen, woken, flushed,
                   initArgs>>

\* mutant of ContextReady: every return of SleepEx is taken for a completion
ContextReady_Always(completed) == TRUE

\* BlockCopier.cpp:38  context->completed.load()
ContextReady(completed) == completed

\* SleepEx returns once an APC has run and the queue is empty;
\* BlockCopier.cpp:38: a context that is not completed goes straight back to
\* the loop condition
SleepReturn(w) ==
    /\ pc[w] = "cbret"
    /\ apcq[w] = << >>
    /\ pc' = [pc EXCEPT ![w] = IF ContextReady(m_cntxts[w].completed)
                               THEN "aw" ELSE "lc_err"]
    /\ UNCHANGED <<engineVars, atomVars, totalVars, ctlVars, m_cntxts, loc,
                   osVars, histVars>>

\* BlockCopier.cpp:38-44  the completed flag is reset and the error latch read
AfterWait(w) ==
    /\ pc[w] = "aw"
    /\ m_cntxts' = [m_cntxts EXCEPT ![w].completed = FALSE]
    /\ pc' = [pc EXCEPT ![w] = IF m_errOccurred THEN "done" ELSE "aw_rc"]
    /\ UNCHANGED <<engineVars, atomVars, totalVars, ctlVars, loc, osVars,
                   histVars>>

\* BlockCopier.cpp:47  if (!getReadCompleteInfo()) IssueRead(...) else loop
AfterWaitRC(w) ==
    /\ pc[w] = "aw_rc"
    /\ pc' = [pc EXCEPT ![w] = IF m_readComplete THEN "lc_err" ELSE "ir_check"]
    /\ UNCHANGED <<engineVars, atomVars, totalVars, ctlVars, m_cntxts, loc,
                   osVars, histVars>>

\* ------------------------------------------------------ OnReadCompletion
\* mutant of OverlappedOwner: every completion routine works on the first
\* context of the pool
OverlappedOwner_First(w) == 1

\* IOUtils.cpp:136 / 201  reinterpret_cast<IOContext*>(lpOverlapped): the
\* context whose OVERLAPPED the operation was submitted with, which is the
\* context of the worker that runs the completion routine
OverlappedOwner(w) == w

\* mutant of PaddedLen: the write length is the number of bytes read
PaddedLen_None(n, sectorSize, bufSize) == n

\* mutant of BytesReadAfter: the bytes of a block are counted twice
BytesReadAfter_Twice(total, numOfBytesTransfered) ==
    total + numOfBytesTransfered + numOfBytesTransfered

\* IOUtils.cpp:168  m_bytesReadTotal.fetch_add(numOfBytesTransfered)
BytesReadAfter(total, numOfBytesTransfered) == total + numOfBytesTransfered

\* IOUtils.cpp:171-188  numOfBytesTransfered rounded up to the sector size;
\* 0 when the padded length does not fit the buffer
PaddedLen(n, sectorSize, bufSize) ==
    LET sec == IF sectorSize = 0 THEN FALLBACK_SECTOR ELSE sectorSize
    IN  IF n % sec = 0 THEN n
        ELSE IF n + (sec - (n % sec)) > bufSize THEN 0
        ELSE n + (sec - (n % sec))

\* mutant of ZeroPad: the pad bytes keep what the buffer held before
ZeroPad_None(buf, n, padded) == buf

\* IOUtils.cpp:186  memset(buf + n, 0, padded - n)
ZeroPad(buf, n, padded) ==
    [i \in DOMAIN buf |-> IF i >= n /\ i < padded THEN 0 ELSE buf[i]]

\* IOUtils.cpp:145-196 up to the error check at the head of IssueWrite
\* (IOUtils.cpp:104-110)
RC_Body(w) ==
    /\ pc[w] = "rc_body"
    /\ LET errCode == loc[w].errCode
           n       == loc[w].nBytes
           cx      == m_cntxts[OverlappedOwner(w)]
           padded  == PaddedLen(n, m_destSectorSize, cx.bufSize)
       IN  IF errCode # "SUCCESS"
           THEN /\ m_errOccurred' = (m_errOccurred \/ errCode # "EOF")
                /\ m_readComplete' = (m_readComplete \/ (errCode = "EOF" /\ n = 0))
                /\ m_cntxts' = [m_cntxts EXCEPT ![OverlappedOwner(w)].completed = TRUE]
                /\ pc' = [pc EXCEPT ![w] = "cbret"]
                /\ UNCHANGED m_bytesReadTotal
           ELSE IF n = 0
           THEN /\ m_readComplete' = TRUE
                /\ m_cntxts' = [m_cntxts EXCEPT ![OverlappedOwner(w)].completed = TRUE]
                /\ pc' = [pc EXCEPT ![w] = "cbret"]
                /\ UNCHANGED <<m_errOccurred, m_bytesReadTotal>>
           ELSE /\ m_bytesReadTotal' = BytesReadAfter(m_bytesReadTotal, n)
                /\ m_readComplete' = m_readComplete
                /\ IF padded = 0
                   THEN /\ m_errOccurred' = TRUE
                        /\ m_cntxts' = [m_cntxts EXCEPT ![OverlappedOwner(w)].completed = TRUE]
                        /\ pc' = [pc EXCEPT ![w] = "cbret"]
                   ELSE IF m_errOccurred
                   THEN \* IssueWrite returns false; line 194 stores true again
                        /\ m_errOccurred' = TRUE
                        /\ m_cntxts' = [m_cntxts EXCEPT
                               ![OverlappedOwner(w)].buf = ZeroPad(cx.buf, n, padded),
                               ![OverlappedOwner(w)].bytesTransferred = padded]
                        /\ pc' = [pc EXCEPT ![w] = "cbret"]
                   ELSE /\ m_errOccurred' = m_errOccurred
                        /\ m_cntxts' = [m_cntxts EXCEPT
                               ![OverlappedOwner(w)].buf = ZeroPad(cx.buf, n, padded),
                               ![OverlappedOwner(w)].bytesTransferred = padded,
                               ![OverlappedOwner(w)].completed = FALSE]
                        /\ pc' = [pc EXCEPT ![w] = "iw_submit"]
    /\ loc' = [loc EXCEPT ![w] = NoLoc]
    /\ UNCHANGED <<engineVars, m_pendingIOs, m_fileOffset, m_bytesWrittenTotal,
                   ctlVars, osVars, histVars>>

\* ------------------------------------------------------------ IssueWrite
\* IOUtils.cpp:112-118  m_pendingIOs.fetch_add(1); WriteFileEx(...)
IW_Submit(w) ==
    /\ pc[w] = "iw_submit"
    /\ m_pendingIOs' = m_pendingIOs + 1
    /\ \E out \in WriteSubmitOutcomes :
         IF out = "ok"
         THEN /\ io' = [io EXCEPT ![w] = Append(@, [kind |-> "write",
                          off |-> OvOffset(m_cntxts[w]),
                          len |-> m_cntxts[w].bytesTransferred,
                          st |-> "pending"])]
              /\ writeCount' = [writeCount EXCEPT ![OvOffset(m_cntxts[w])] = @ + 1]
              /\ pc' = [pc EXCEPT ![w] = "cbret"]
              /\ failSeen' = failSeen
              /\ lastEv' = [lastEv EXCEPT ![w] = "write_submitted"]
         ELSE /\ io' = io
              /\ writeCount' = writeCount
              /\ pc' = [pc EXCEPT ![w] = "iw_fail"]
              /\ failSeen' = TRUE
              /\ lastEv' = lastEv
    /\ UNCHANGED <<engineVars, m_fileOffset, m_readComplete, m_errOccurred,
                   totalVars, ctlVars, m_cntxts, loc, apcq, dest, device,
                   claimed, readCount, woken, flushed, initArgs>>

\* IOUtils.cpp:123  m_errOccurred.store(true)
IW_Fail(w) ==
    /\ pc[w] = "iw_fail"
    /\ m_errOccurred' = TRUE
    /\ pc' = [pc EXCEPT ![w] = "iw_dec"]
    /\ UNCHANGED <<engineVars, m_pendingIOs, m_fileOffset, m_readComplete,
                   totalVars, ctlVars, m_cntxts, loc, osVars, histVars>>

\* IOUtils.cpp:124-125 and 194  fetch_sub(1); return false; store(true) again
IW_Dec(w) ==
    /\ pc[w] = "iw_dec"
    /\ m_pendingIOs' = m_pendingIOs - 1
    /\ m_errOccurred' = TRUE
    /\ pc' = [pc EXCEPT ![w] = "cbret"]
    /\ UNCHANGED <<engineVars, m_fileOffset, m_readComplete,
                   totalVars, ctlVars, m_cntxts, loc, osVars, histVars>>

\* ----------------------------------------------------- OnWriteCompletion
\* mutant of WriteErrLatch: the latch is stored with the outcome of the write
WriteErrLatch_Stored(errOccurred, errCode) == errCode # "SUCCESS"

\* mutant of WriteErrLatch: a failed write completion is only logged
WriteErrLatch_Ignored(errOccurred, errCode) == errOccurred

\* IOUtils.cpp:209-212  the error latch after a write completion
WriteErrLatch(errOccurred, errCode) == errOccurred \/ errCode # "SUCCESS"

\* mutant of BytesWrittenAfter: the written bytes are not counted
BytesWrittenAfter_NotCounted(total, numOfBytesTransfered) == total

\* IOUtils.cpp:215  m_bytesWrittenTotal.fetch_add(numOfBytesTransfered)
BytesWrittenAfter(total, numOfBytesTransfered) == total + numOfBytesTransfered

\* IOUtils.cpp:209-217  error latch, byte total, completed flag
WC_Body(w) ==
    /\ pc[w] = "wc_body"
    /\ m_errOccurred' = WriteErrLatch(m_errOccurred, loc[w].errCode)
    /\ m_bytesWrittenTotal' = BytesWrittenAfter(m_bytesWrittenTotal, loc[w].nBytes)
    /\ m_cntxts' = [m_cntxts EXCEPT ![OverlappedOwner(w)].completed = TRUE]
    /\ pc' = [pc EXCEPT ![w] = "cbret"]
    /\ loc' = [loc EXCEPT ![w] = NoLoc]
    /\ UNCHANGED <<engineVars, m_pendingIOs, m_fileOffset, m_readComplete,
                   m_bytesReadTotal, ctlVars, osVars, histVars>>

\* -------------------------------------------------------------- StartCopy
\* BlockCopier.cpp:204-227  the guard, the reset of the shared state and the
\* launch of one worker per context
SC_Begin ==
    /\ ctl \in {"inited", "initfail"}
    /\ IF m_hSrc = "INVALID" \/ m_hDest = "INVALID" \/ m_cntxts = << >>
       THEN /\ ctl' = "returned" /\ result' = "copy_false"
            /\ UNCHANGED <<atomVars, totalVars, pc, runHist>>
       ELSE /\ ctl' = "mon_pend" /\ result' = "running"
            /\ m_readComplete' = FALSE /\ m_errOccurred' = FALSE
            /\ m_fileOffset' = 0 /\ m_pendingIOs' = 0
            /\ m_bytesReadTotal' = 0 /\ m_bytesWrittenTotal' = 0
            /\ pc' = [w \in Workers |->
                        IF w <= m_numOfThreads THEN "ir_check" ELSE "idle"]
            /\ claimed' = << >>
            /\ writeCount' = [o \in Offsets |-> 0]
            /\ readCount' = [o \in Offsets |-> 0]
            /\ failSeen' = FALSE
            /\ woken' = {}
            /\ flushed' = "no"
            /\ lastEv' = [w \in Workers |-> "none"]
    /\ initArgs' = NoArgs
    /\ UNCHANGED <<engineVars, apcIdx, m_cntxts, loc, osVars>>

\* BlockCopier.cpp:235  getPendingIOs() > 0
SC_MonPending ==
    /\ ctl = "mon_pend"
    /\ ctl' = (IF m_pendingIOs > 0 THEN "mon_err" ELSE "mon_rc")
    /\ UNCHANGED <<engineVars, atomVars, totalVars, apcIdx, result, m_cntxts,
                   pc, loc, osVars, histVars>>

\* BlockCopier.cpp:235  !getReadCompleteInfo(); false ends the monitoring loop
SC_MonReadComplete ==
    /\ ctl = "mon_rc"
    /\ ctl' = (IF ~m_readComplete THEN "mon_err" ELSE "post_err")
    /\ UNCHANGED <<engineVars, atomVars, totalVars, apcIdx, result, m_cntxts,
                   pc, loc, osVars, histVars>>

\* BlockCopier.cpp:236  !getErrorOccuredInfo(); true runs the loop body
\* (progress log and a 100 ms sleep) and evaluates the condition again
SC_MonErr ==
    /\ ctl = "mon_err"
    /\ ctl' = (IF ~m_errOccurred THEN "mon_pend" ELSE "post_err")
    /\ UNCHANGED <<engineVars, atomVars, totalVars, apcIdx, result, m_cntxts,
                   pc, loc, osVars, histVars>>

\* BlockCopier.cpp:261  the wake-ups are queued only when no error occurred
WakeWorkers(errOccurred) == ~errOccurred

SC_PostLoop ==
    /\ ctl = "post_err"
    /\ IF WakeWorkers(m_errOccurred)
       THEN ctl' = "apc" /\ apcIdx' = 1
       ELSE ctl' = "join" /\ apcIdx' = apcIdx
    /\ UNCHANGED <<engineVars, atomVars, totalVars, result, m_cntxts,
                   pc, loc, osVars, histVars>>

\* BlockCopier.cpp:262-282  one iteration of the QueueUserAPC loop; queueing
\* to a thread that has exited fails and is only logged
SC_QueueAPC ==
    /\ ctl = "apc"
    /\ IF apcIdx > m_numOfThreads
       THEN /\ ctl' = "join" /\ apcIdx' = 0
            /\ UNCHANGED <<apcq, woken>>
       ELSE /\ ctl' = ctl /\ apcIdx' = apcIdx + 1
            /\ woken' = woken \cup {apcIdx}
            /\ apcq' = IF pc[apcIdx] # "done"
                       THEN [apcq EXCEPT ![apcIdx] = Append(@,
                               [kind |-> "dummy", off |-> 0,
                                errCode |-> "SUCCESS", nBytes |-> 0])]
                       ELSE apcq
    /\ UNCHANGED <<engineVars, atomVars, totalVars, result, m_cntxts,
                   pc, loc, io, dest, device, claimed, writeCount, readCount,
                   failSeen, flushed, lastEv, initArgs>>

\* mutant of AllJoined: the controller goes on without waiting for the workers
AllJoined_NoWait == TRUE

\* BlockCopier.cpp:289-294  t.join() has returned for every worker thread
AllJoined == \A w \in 1 .. m_numOfThreads : pc[w] = "done"

\* BlockCopier.cpp:289-294  join every worker thread
SC_Join ==
    /\ ctl = "join"
    /\ AllJoined
    /\ ctl' = "flush"
    /\ UNCHANGED <<engineVars, atomVars, totalVars, apcIdx, result, m_cntxts,
                   pc, loc, osVars, histVars>>

\* mutant of FlushSetsError: a failed flush is only logged
FlushSetsError_Never(flushOk) == FALSE

\* BlockCopier.cpp:297-303  FlushFileBuffers; a failure sets the error latch
FlushSetsError(flushOk) == ~flushOk

SC_Flush ==
    /\ ctl = "flush"
    /\ \E flushOk \in (IF m_hDest = "open" THEN BOOLEAN ELSE {FALSE}) :
         /\ m_errOccurred' = (m_errOccurred \/ FlushSetsError(flushOk))
         /\ flushed' = (IF flushOk THEN "ok" ELSE "failed")
    /\ ctl' = "ret"
    /\ UNCHANGED <<engineVars, m_pendingIOs, m_fileOffset, m_readComplete,
                   totalVars, apcIdx, result, m_cntxts, pc, loc, osVars,
                   claimed, writeCount, readCount, failSeen, woken, lastEv,
                   initArgs>>

\* BlockCopier.cpp:305-314  the return value
CopyResult(errOccurred) == IF errOccurred THEN "copy_false" ELSE "copy_true"

SC_Return ==
    /\ ctl = "ret"
    /\ result' = CopyResult(m_errOccurred)
    /\ ctl' = "returned"
    /\ UNCHANGED <<engineVars, atomVars, totalVars, apcIdx, m_cntxts,
                   pc, loc, osVars, histVars>>

\* ------------------------------------------------------------------ Next
Next ==
    \/ DoInitialize
    \/ SC_Begin
    \/ SC_MonPending
    \/ SC_MonReadComplete
    \/ SC_MonErr
    \/ SC_PostLoop
    \/ SC_QueueAPC
    \/ SC_Join
    \/ SC_Flush
    \/ SC_Return
    \/ \E w \in Workers : IR_Check(w)
    \/ \E w \in Workers : IR_Claim(w)
    \/ \E w \in Workers : IR_Eof(w)
    \/ \E w \in Workers : IR_Submit(w)
    \/ \E w \in Workers : IR_Fail(w)
    \/ \E w \in Workers : IR_Dec(w)
    \/ \E w \in Workers : LC_Err(w)
    \/ \E w \in Workers : LC_ReadComplete(w)
    \/ \E w \in Workers : LC_Pending(w)
    \/ \E w \in Workers : DeliverAPC(w)
    \/ \E w \in Workers : SleepReturn(w)
    \/ \E w \in Workers : AfterWait(w)
    \/ \E w \in Workers : AfterWaitRC(w)
    \/ \E w \in Workers : RC_Body(w)
    \/ \E w \in Workers : IW_Submit(w)
    \/ \E w \in Workers : IW_Fail(w)
    \/ \E w \in Workers : IW_Dec(w)
    \/ \E w \in Workers : WC_Body(w)
    \/ \E c \in Workers : CompleteIO(c)

Spec == Init /\ [][Next]_vars

SpecAny == InitAny /\ [][Next]_vars

\* Sequences of calls on one engine up to the decision of StartCopy to launch
\* the workers: Initialize, possibly Initialize again, then StartCopy.
NextCalls == DoInitialize \/ DoReinitialize \/ SC_Begin
SpecCalls == Init /\ [][NextCalls]_vars

\* =================================================================== claims
ActiveWorkers == {w \in Workers : w <= m_numOfThreads}
CopyRan == flushed # "no"
NumBlocks == (m_srcFileSize + m_blockSize - 1) \div m_blockSize
ClaimedOffsets == {claimed[i][1] : i \in 1 .. Len(claimed)}
IssueReadPcs == {"ir_check", "ir_claim", "ir_eof", "ir_submit", "ir_fail", "ir_dec"}

\* C1: after a StartCopy that returned success, every destination byte at an
\* offset o in [0, totalSize) equals the source byte at o.
C1_Coverage ==
    result = "copy_true" =>
        \A o \in 0 .. (m_srcFileSize - 1) : dest[o] = SrcByte(o)

\* a successful copy of two blocks, the last one short, by two or more workers
C1_Witness ==
    /\ result = "copy_true"
    /\ m_numOfThreads >= 2
    /\ Len(claimed) >= 2
    /\ m_srcFileSize % m_blockSize # 0

\* C2 (as a safety property): no worker is ever left in the indefinite
\* alertable wait with nothing that can end the wait: no operation of its
\* context outstanding, no APC queued, and the controller past the point
\* where it would queue the wake-up for it.  In such a state the worker never
\* leaves its loop and StartCopy never returns from join.
C2_NoWorkerWaitsForever ==
    \A w \in ActiveWorkers :
        ~ /\ pc[w] = "sleep" /\ apcq[w] = << >> /\ io[w] = << >>
          /\ \/ ctl = "join"
             \/ (ctl = "apc" /\ apcIdx > w)

\* C3: when the controller has left its monitoring loop and is about to join
\* the workers, it has sent the wake-up to every worker thread.
C3_WakeUpBeforeJoin ==
    ctl = "join" => woken = ActiveWorkers

\* C4: once a read or write completion has reported a failure other than
\* end-of-source, or a write submission has failed immediately, the call
\* never returns success, and when it has returned errorOccurred is set and
\* the result is failure.
C4_FailureReturnsFailure ==
    failSeen =>
        /\ result # "copy_true"
        /\ ctl = "returned" => (m_errOccurred /\ result = "copy_false")

\* a write completion reported the failure and the call has returned
C4_Witness ==
    /\ failSeen /\ ctl = "returned" /\ result = "copy_false"
    /\ m_bytesReadTotal = m_srcFileSize

\* C5: whenever a worker thread has left its loop, its context has no
\* outstanding read or write.
C5_DrainedAtWorkerExit ==
    \A w \in ActiveWorkers : pc[w] = "done" => io[w] = << >>

\* C6: StartCopy returns success if and only if errorOccurred is false after
\* the join and the flush; a failed flush sets errorOccurred and makes the run
\* a failure.
C6_ResultIffNoError ==
    /\ (ctl = "ret" /\ flushed = "failed") => m_errOccurred
    /\ (ctl = "returned" /\ CopyRan) =>
          /\ (result = "copy_true") <=> ~m_errOccurred
          /\ flushed = "failed" => result = "copy_false"

\* every read and write succeeded, only the flush failed
C6_Witness ==
    /\ ctl = "returned" /\ flushed = "failed" /\ ~failSeen
    /\ result = "copy_false"
    /\ \A o \in 0 .. (m_srcFileSize - 1) : dest[o] = SrcByte(o)

\* C7: the intervals of any two successful claims of one copy are disjoint.
C7_ClaimsDisjoint ==
    \A i, j \in 1 .. Len(claimed) :
        i < j => \/ claimed[i][1] + claimed[i][2] <= claimed[j][1]
                 \/ claimed[j][1] + claimed[j][2] <= claimed[i][1]

\* two workers hold claims at the same time, each with its read in flight
C7_Witness ==
    \E w1, w2 \in ActiveWorkers :
        /\ w1 # w2
        /\ Len(io[w1]) = 1 /\ io[w1][1].kind = "read"
        /\ Len(io[w2]) = 1 /\ io[w2][1].kind = "read"
        /\ io[w1][1].off # io[w2][1].off

\* C8: a claim takes the value of fileOffset before one atomic add of
\* blockSize; below totalSize it succeeds with length
\* min(blockSize, totalSize - o) > 0; at or beyond totalSize no read is issued
\* and readComplete is set.
C8_ClaimStep ==
    [][\A w \in Workers :
         /\ (pc[w] = "ir_claim" /\ pc'[w] # "ir_claim") =>
               /\ m_fileOffset' = m_fileOffset + m_blockSize
               /\ IF m_fileOffset < m_srcFileSize
                  THEN /\ claimed' = Append(claimed,
                              <<m_fileOffset,
                                Min(m_blockSize, m_srcFileSize - m_fileOffset)>>)
                       /\ Min(m_blockSize, m_srcFileSize - m_fileOffset) > 0
                       /\ m_cntxts'[w].readOffset = m_fileOffset
                       /\ loc'[w].bytesToRead =
                              Min(m_blockSize, m_srcFileSize - m_fileOffset)
                       /\ pc'[w] = "ir_submit"
                  ELSE /\ claimed' = claimed
                       /\ pc'[w] = "ir_eof"
         /\ (pc[w] = "ir_eof" /\ pc'[w] # "ir_eof") =>
               /\ m_readComplete'
               /\ io' = io /\ m_pendingIOs' = m_pendingIOs
               /\ pc'[w] = "done"
      ]_vars

\* a short last block was claimed and a later claim landed beyond the source
C8_Witness ==
    /\ \E i \in 1 .. Len(claimed) : claimed[i][2] < m_blockSize
    /\ m_readComplete
    /\ m_fileOffset > NumBlocks * m_blockSize

\* C9: every claimed offset is a multiple of blockSize; on a run that returns
\* success the claimed offsets are exactly the block starts below totalSize,
\* each claimed once and written once.
C9_ClaimedBlocks ==
    /\ \A i \in 1 .. Len(claimed) : claimed[i][1] % m_blockSize = 0
    /\ result = "copy_true" =>
          /\ ClaimedOffsets = {k * m_blockSize : k \in 0 .. (NumBlocks - 1)}
          /\ Len(claimed) = NumBlocks
          /\ \A o \in Offsets :
                writeCount[o] = (IF o \in ClaimedOffsets THEN 1 ELSE 0)

\* a successful copy of a source shorter than one block: one claim, one write
C9_Witness ==
    /\ result = "copy_true"
    /\ m_srcFileSize < m_blockSize
    /\ Len(claimed) = 1 /\ writeCount[0] = 1

\* C10: each context has at most one outstanding operation, and a worker is
\* inside IssueRead or about to submit a write only when no operation of its
\* context is outstanding.
C10_OneOperationPerContext ==
    \A w \in Workers :
        /\ Len(io[w]) <= 1
        /\ pc[w] \in (IssueReadPcs \cup {"iw_submit"}) => io[w] = << >>

\* a worker was woken by the no-op APC while its write was still in flight
C10_Witness ==
    \E w \in ActiveWorkers :
        /\ w \in woken /\ apcq[w] = << >>
        /\ pc[w] \in {"lc_err", "lc_rc", "lc_pend", "sleep"}
        /\ Len(io[w]) = 1 /\ io[w][1].kind = "write"

\* a step in which worker w submits an operation of the given kind, and one
\* in which the completion routine of the given kind starts on w's context
Submits(w, kind) ==
    /\ Len(io'[w]) = Len(io[w]) + 1
    /\ io'[w][Len(io'[w])].kind = kind
CompletionRuns(w, kind) ==
    /\ pc[w] \in {"sleep", "cbret"}
    /\ pc'[w] = (IF kind = "read" THEN "rc_body" ELSE "wc_body")

\* C11: per context the events are strictly ordered: read submission, its
\* read completion, the write submission for the same offset, its write
\* completion, the next read submission; and after a successful read the
\* completed flag of the context stays clear until the write has finished.
C11_ContextOrder ==
    /\ [](\A w \in DOMAIN m_cntxts :
            m_cntxts[w].completed =>
                \/ lastEv[w] \in {"none", "write_completed"}
                \/ lastEv[w] = "read_completed" /\ m_cntxts[w].bytesTransferred = 0)
    /\ [][\A w \in Workers :
            /\ Submits(w, "read") =>
                  /\ lastEv[w] \in {"none", "write_completed"}
                  /\ io[w] = << >>
            /\ CompletionRuns(w, "read") =>
                  /\ lastEv[w] = "read_submitted"
                  /\ Head(apcq[w]).off = m_cntxts[w].readOffset
            /\ Submits(w, "write") =>
                  /\ lastEv[w] = "read_completed"
                  /\ io[w] = << >>
                  /\ io'[w][1].off = m_cntxts[w].readOffset
            /\ CompletionRuns(w, "write") =>
                  /\ lastEv[w] = "write_submitted"
                  /\ Head(apcq[w]).off = m_cntxts[w].readOffset
       ]_vars

\* the only context has copied its first block and submitted its next read
C11_Witness ==
    /\ m_numOfThreads = 1
    /\ lastEv[1] = "read_submitted"
    /\ m_cntxts[1].readOffset > 0
    /\ writeCount[0] = 1

\* length of the successful claim made at offset o
ClaimLen(o) ==
    LET i == CHOOSE k \in 1 .. Len(claimed) : claimed[k][1] = o
    IN  claimed[i][2]

\* C12: every operation outstanding on a context is at the readOffset the
\* context captured when its read was submitted, that offset is one the
\* context claimed, and the data handed to a write is the source data of
\* exactly that offset.
C12_WriteAtReadOffset ==
    \A w \in Workers : \A i \in 1 .. Len(io[w]) :
        /\ io[w][i].off = m_cntxts[w].readOffset
        /\ io[w][i].off \in ClaimedOffsets
        /\ io[w][i].kind = "write" =>
              \A j \in 0 .. (ClaimLen(io[w][i].off) - 1) :
                  m_cntxts[w].buf[j] = SrcByte(io[w][i].off + j)

\* a write is in flight at a non-zero offset while other contexts have
\* claimed beyond it and one of them has an operation in flight
C12_Witness ==
    \E w1, w2 \in ActiveWorkers :
        /\ w1 # w2
        /\ Len(io[w1]) = 1 /\ io[w1][1].kind = "write" /\ io[w1][1].off > 0
        /\ Len(io[w2]) = 1
        /\ m_fileOffset > io[w1][1].off + m_blockSize

\* C13: every write submitted to the destination has a length and an offset
\* that are multiples of destSectorSize, whatever number of bytes
\* (1 .. requested) the read completion reported.
C13_WritesAligned ==
    \A w \in Workers : \A i \in 1 .. Len(io[w]) :
        io[w][i].kind = "write" =>
            /\ m_destSectorSize > 0
            /\ io[w][i].len > 0
            /\ io[w][i].len % m_destSectorSize = 0
            /\ io[w][i].off % m_destSectorSize = 0

\* a write is in flight for a read that reported fewer bytes than requested
C13_Witness ==
    /\ device = "any"
    /\ Len(claimed) = 1
    /\ \E w \in ActiveWorkers :
          /\ Len(io[w]) = 1 /\ io[w][1].kind = "write"
          /\ m_bytesReadTotal < ClaimLen(io[w][1].off)
          /\ m_bytesReadTotal % m_destSectorSize # 0

\* ceil(totalSize / sectorSize) * sectorSize
PaddedTotalSize == RoundUp(m_srcFileSize, m_destSectorSize)

\* C14: after a successful copy the destination bytes in
\* [totalSize, paddedTotalSize) are all zero.
C14_TailPadding ==
    result = "copy_true" =>
        \A o \in m_srcFileSize .. (PaddedTotalSize - 1) : dest[o] = 0

\* a successful copy whose short last block went through a buffer that held
\* a full block before
C14_Witness ==
    /\ result = "copy_true"
    /\ m_numOfThreads = 1
    /\ Len(claimed) = 2
    /\ PaddedTotalSize > m_srcFileSize
    /\ dest[m_srcFileSize] = 0

\* C15: no submitted write covers a destination byte at or beyond
\* paddedTotalSize: offset + length <= paddedTotalSize.
C15_NoWriteBeyondPaddedSize ==
    \A w \in Workers : \A i \in 1 .. Len(io[w]) :
        io[w][i].kind = "write" =>
            io[w][i].off + io[w][i].len <= PaddedTotalSize

\* the padded write of a short last block is in flight and ends at
\* paddedTotalSize
C15_Witness ==
    \E w \in ActiveWorkers :
        /\ Len(io[w]) = 1 /\ io[w][1].kind = "write"
        /\ io[w][1].off > 0
        /\ PaddedTotalSize > m_srcFileSize
        /\ io[w][1].off + io[w][1].len = PaddedTotalSize

\* C16: whenever StartCopy returns success, pendingIOs is 0 and
\* bytesWrittenTotal >= totalSize.
C16_Quiescence ==
    result = "copy_true" =>
        /\ m_pendingIOs = 0
        /\ m_bytesWrittenTotal >= m_srcFileSize
        /\ \A w \in Workers : io[w] = << >>

\* a successful copy by several workers of a source that needed padding
C16_Witness ==
    /\ result = "copy_true"
    /\ m_numOfThreads >= 2
    /\ Len(claimed) >= 2
    /\ m_bytesWrittenTotal > m_srcFileSize
    /\ m_pendingIOs = 0

\* C17: once errorOccurred is set no new operation is issued: in no step
\* taken with the latch set is a read or a write submitted.
C17_NoIssueAfterError ==
    [][m_errOccurred =>
          \A w \in Workers : ~Submits(w, "read") /\ ~Submits(w, "write")]_vars

\* C18: between the reset at the start of StartCopy and its return neither
\* readComplete nor errorOccurred changes from true to false.
C18_LatchesSetOnce ==
    [][ctl \notin {"new", "inited", "initfail"} =>
          /\ m_readComplete => m_readComplete'
          /\ m_errOccurred => m_errOccurred']_vars

\* both latches were set during a copy in which a write completed, and the
\* call has returned
C18_Witness ==
    /\ ctl = "returned" /\ result = "copy_false"
    /\ m_errOccurred /\ m_readComplete
    /\ m_bytesWrittenTotal > 0

\* C19: end-of-source is never an error: a claim at or beyond totalSize, a
\* ReadFileEx that fails immediately with end-of-file, and a read completion
\* that reports end-of-file each set readComplete and leave errorOccurred
\* unchanged.
C19_EndOfSourceSetsReadComplete ==
    [][\A w \in Workers :
          \/ pc[w] = "ir_eof" /\ pc'[w] # "ir_eof"
          \/ pc[w] = "ir_fail" /\ pc'[w] # "ir_fail" /\ loc[w].errCode = "EOF"
          \/ pc[w] = "rc_body" /\ pc'[w] # "rc_body" /\ loc[w].errCode = "EOF"
          => m_readComplete' /\ m_errOccurred' = m_errOccurred]_vars

\* C20: whenever Initialize has returned true, 1 <= numThreads <= 64,
\* blockSize mod destSectorSize = 0, destCapacity >= totalSize, and the pool
\* holds exactly numThreads contexts, each with a buffer of exactly blockSize
\* bytes.
C20_InitializePostcondition ==
    ctl = "inited" =>
        /\ result = "init_true"
        /\ 1 <= m_numOfThreads /\ m_numOfThreads <= MAX_THREADS
        /\ m_blockSize > 0 /\ m_destSectorSize > 0
        /\ m_blockSize % m_destSectorSize = 0
        /\ m_destCapacity >= m_srcFileSize
        /\ Len(m_cntxts) = m_numOfThreads
        /\ \A i \in 1 .. Len(m_cntxts) :
              /\ m_cntxts[i].bufSize = m_blockSize
              /\ DOMAIN m_cntxts[i].buf = 0 .. (m_blockSize - 1)

\* Initialize has returned true for the largest pool and block size, with a
\* destination exactly as large as the source
C20_Witness ==
    /\ ctl = "inited"
    /\ m_numOfThreads = MaxThreads
    /\ m_blockSize = MaxBlock
    /\ m_destCapacity = m_srcFileSize
    /\ Len(m_cntxts) = MaxThreads


\* ------------------------------------------------- claims C21 .. C30
\* every check of Initialize other than the comparison of the destination's
\* capacity with the source's size passes for the arguments a
OtherChecksPass(a) ==
    /\ a.nThreads > 0 /\ a.nThreads <= MAX_THREADS
    /\ BlockSizeOf(a.blockSizeMB) # 0
    /\ a.srcOpen /\ a.destOpen
    /\ a.srcSize # 0 /\ a.destCap # 0
    /\ (a.sector # 0 \/ a.proceed)
    /\ BlockSizeOf(a.blockSizeMB)
            % (IF a.sector = 0 THEN FALLBACK_SECTOR ELSE a.sector) = 0
    /\ a.badAt \notin 1 .. a.nThreads

\* C21: Initialize accepts a destination whose capacity equals the source's
\* size (when every other check passes), and a destination whose capacity is
\* smaller than the source is rejected: Initialize returns false, and a
\* StartCopy that follows returns false without starting a worker, claiming
\* a block or submitting an operation.
C21_CapacityAtLeastSource ==
    /\ (initArgs.called /\ OtherChecksPass(initArgs)
            /\ initArgs.destCap = initArgs.srcSize)
         => (ctl = "inited" /\ result = "init_true"
                /\ m_destCapacity = m_srcFileSize)
    /\ (initArgs.called /\ initArgs.srcOpen /\ initArgs.destOpen
            /\ initArgs.nThreads \in 1 .. MAX_THREADS
            /\ BlockSizeOf(initArgs.blockSizeMB) # 0
            /\ initArgs.srcSize # 0 /\ initArgs.destCap < initArgs.srcSize)
         => (ctl = "initfail" /\ result = "init_false")
    /\ m_destCapacity < m_srcFileSize
         => /\ ctl \in {"initfail", "returned"}
            /\ result \in {"init_false", "copy_false"}
            /\ \A w \in Workers : pc[w] = "idle" /\ io[w] = << >>
            /\ claimed = << >>

C21_Witness ==
    /\ initArgs.called /\ initArgs.destCap = initArgs.srcSize
    /\ initArgs.srcSize = MaxSrc
    /\ ctl = "inited" /\ result = "init_true"

\* C22: when Initialize accepts blockSizeMB, blockSizeMB >= 1 and the block
\* size in bytes is blockSizeMB * 2^20 exactly, without wrap-around of the
\* 32-bit product.
C22_BlockSizeExact ==
    (initArgs.called /\ ctl = "inited")
        => /\ initArgs.blockSizeMB >= 1
           /\ m_blockSize = initArgs.blockSizeMB * MiB

\* C23: for a source of 0 bytes (both files opened, the size query reports 0)
\* the engine claims no block, submits no read and no write, and neither
\* Initialize nor StartCopy reports a failure; StartCopy returns success.
C23_EmptySourceSucceeds ==
    (m_hSrc # "INVALID" /\ m_hDest # "INVALID" /\ m_srcFileSize = 0)
        => /\ claimed = << >>
           /\ \A o \in Offsets : readCount[o] = 0 /\ writeCount[o] = 0
           /\ result \notin {"init_false", "copy_false"}
           /\ ctl = "returned" => result = "copy_true"

\* C24: with one thread the copy is serial: the claims are made at the
\* offsets 0, blockSize, 2 * blockSize, ... in this order; a claim after the
\* first is made only when the write of the previous block has completed and
\* the block is on the destination; no block is read twice, and a successful
\* copy has submitted exactly ceil(totalSize / blockSize) reads.
C24_SerialWithOneThread ==
    /\ []((m_numOfThreads = 1 /\ pc[1] # "idle") =>
            /\ \A i \in 1 .. Len(claimed) : claimed[i][1] = (i - 1) * m_blockSize
            /\ Len(claimed) <= NumBlocks
            /\ \A o \in Offsets :
                  /\ readCount[o] <= 1
                  /\ readCount[o] = 1 => o \in ClaimedOffsets
            /\ result = "copy_true" =>
                  \A o \in Offsets :
                     readCount[o] = (IF o % m_blockSize = 0 /\ o < m_srcFileSize
                                     THEN 1 ELSE 0))
    /\ [][(m_numOfThreads = 1 /\ Len(claimed) >= 1
             /\ Len(claimed') = Len(claimed) + 1) =>
            /\ lastEv[1] = "write_completed"
            /\ io[1] = << >>
            /\ LET prev == claimed[Len(claimed)]
               IN  \A o \in prev[1] .. (prev[1] + prev[2] - 1) :
                       dest[o] = SrcByte(o)
       ]_vars

\* a successful one-thread copy of a source of two blocks
C24_Witness ==
    /\ m_numOfThreads = 1 /\ result = "copy_true"
    /\ Len(claimed) = 2 /\ NumBlocks = 2
    /\ readCount[0] = 1 /\ readCount[m_blockSize] = 1

\* C25: whenever readComplete is true and pendingIOs is zero the engine is
\* quiescent: no context has an operation outstanding, no context is about
\* to submit the write for a read that completed successfully, and no worker
\* is between a successful claim and the submission of its read.
C25_QuiescentWhenDrained ==
    (result = "running" /\ m_readComplete /\ m_pendingIOs = 0)
        => \A w \in ActiveWorkers :
              /\ io[w] = << >>
              /\ pc[w] # "iw_submit"
              /\ pc[w] # "ir_submit"

\* C26: readComplete is true only once no further read can be issued: no
\* read is submitted to the source in a state in which readComplete is true.
C26_NoReadOnceReadComplete ==
    [][\A w \in Workers : Submits(w, "read") => ~m_readComplete]_vars

\* C27: a read completion whose error code is end-of-file (with any number
\* of bytes transferred), or that succeeded with 0 bytes, sets readComplete,
\* sets the completed flag of its context and submits no write.
C27_EndOfSourceCompletion ==
    [][\A w \in Workers :
          (/\ pc[w] = "rc_body" /\ pc'[w] # "rc_body"
           /\ \/ loc[w].errCode = "EOF"
              \/ loc[w].errCode = "SUCCESS" /\ loc[w].nBytes = 0)
          => /\ m_readComplete'
             /\ m_cntxts'[w].completed
             /\ pc'[w] = "cbret" /\ io'[w] = io[w]]_vars

\* C28: IssueWrite increments pendingIOs before it submits the write; when
\* WriteFileEx rejects the write, IssueWrite returns with errorOccurred set,
\* pendingIOs decremented again and the completed flag of the context set.
C28_WriteSubmitFailure ==
    [][\A w \in Workers :
          /\ (pc[w] = "iw_submit" /\ pc'[w] # "iw_submit")
                => m_pendingIOs' = m_pendingIOs + 1
          /\ (pc[w] = "iw_dec" /\ pc'[w] # "iw_dec")
                => /\ m_errOccurred'
                   /\ m_pendingIOs' = m_pendingIOs - 1
                   /\ m_cntxts'[w].completed]_vars

\* C29: when ReadFileEx rejects a read, IssueRead sets readComplete and not
\* errorOccurred if the failure is end-of-file, and errorOccurred and not
\* readComplete otherwise; it decrements pendingIOs, which it had incremented
\* before the submission, and returns false with no operation outstanding
\* on the context.
C29_ReadSubmitFailure ==
    [][\A w \in Workers :
          /\ (pc[w] = "ir_submit" /\ pc'[w] = "ir_fail")
                => /\ m_pendingIOs' = m_pendingIOs + 1
                   /\ io'[w] = io[w]
                   /\ UNCHANGED <<m_readComplete, m_errOccurred>>
          /\ (pc[w] = "ir_fail" /\ pc'[w] # "ir_fail")
                => /\ pc'[w] = "ir_dec"
                   /\ m_pendingIOs' = m_pendingIOs
                   /\ IF loc[w].errCode = "EOF"
                      THEN m_readComplete' /\ m_errOccurred' = m_errOccurred
                      ELSE m_errOccurred' /\ m_readComplete' = m_readComplete
          /\ (pc[w] = "ir_dec" /\ pc'[w] # "ir_dec")
                => /\ m_pendingIOs' = m_pendingIOs - 1
                   /\ pc'[w] = AfterIssueRead(w, FALSE)
                   /\ io'[w] = << >>
                   /\ UNCHANGED <<m_readComplete, m_errOccurred, m_cntxts>>
    ]_vars

\* the only worker claimed a block, ReadFileEx rejected the read with
\* end-of-file, and IssueRead has returned
C29_Witness ==
    /\ m_numOfThreads = 1 /\ pc[1] = "done"
    /\ Len(claimed) = 1
    /\ \A o \in Offsets : readCount[o] = 0
    /\ m_readComplete /\ ~m_errOccurred
    /\ m_pendingIOs = 0 /\ io[1] = << >>

\* C30: IssueRead called while readComplete or errorOccurred is set returns
\* false and changes nothing: fileOffset, pendingIOs, both latches and every
\* field of every context are unchanged, no block is claimed and no operation
\* is submitted.
C30_IssueReadNoOpWhenLatched ==
    [][\A w \in Workers :
          (pc[w] = "ir_check" /\ pc'[w] # "ir_check"
              /\ (m_readComplete \/ m_errOccurred))
          => /\ pc'[w] = AfterIssueRead(w, FALSE)
             /\ UNCHANGED <<m_fileOffset, m_pendingIOs, m_readComplete,
                            m_errOccurred, m_cntxts, io, claimed, readCount>>
    ]_vars

\* worker 2 has returned from IssueRead without ever claiming: the only
\* claim of the run is worker 1's, and its read failed
C30_Witness ==
    /\ m_numOfThreads = 2 /\ pc[2] = "done"
    /\ lastEv[2] = "none"
    /\ Len(claimed) = 1 /\ m_fileOffset = m_blockSize
    /\ m_cntxts[1].readOffset = 0 /\ lastEv[1] # "none"
    /\ m_errOccurred

\* ------------------------------------------------- claims C31 .. C39
\* C31: in the worker loop, when the IssueRead for the next block returns
\* false, the worker leaves the loop at once only if neither readComplete
\* nor errorOccurred is set; with a latch set it leaves only through the
\* loop condition, that is with errorOccurred set or with readComplete set
\* and pendingIOs = 0.  (lastEv[w] = "none" holds exactly for the initial
\* IssueRead, which is outside the loop.)
C31_BreakOnlyWhenUnlatched ==
    [][\A w \in Workers :
          (pc[w] \in IssueReadPcs /\ pc'[w] = "done" /\ lastEv[w] # "none")
          => \/ ~m_readComplete' /\ ~m_errOccurred'
             \/ m_errOccurred'
             \/ m_readComplete' /\ m_pendingIOs' = 0]_vars

\* contexts with a write the destination device can still carry out: a write
\* that is pending on the context of a thread that has not exited (the pending I/O of
\* a thread is cancelled when the thread exits)
LiveWrites ==
    {w \in Workers :
        /\ pc[w] # "done"
        /\ \E i \in 1 .. Len(io[w]) :
              io[w][i].kind = "write" /\ io[w][i].st = "pending"}

CallbackPcs == {"rc_body", "iw_submit", "iw_fail", "iw_dec", "wc_body"}

\* C33: worker w works on context w only, and a context is touched by no
\* other worker: a step of worker w leaves every other context and the
\* operations outstanding on it unchanged, and a step of a completion routine
\* for context w changes, besides context w, only the shared atomics
\* pendingIOs, readComplete, errorOccurred and the byte totals.
C33_ContextConfinement ==
    [][\A w \in ActiveWorkers :
          /\ (pc[w] # "idle" /\ pc'[w] # pc[w] /\ result = "running") =>
                \A c \in DOMAIN m_cntxts :
                    c # w => /\ m_cntxts'[c] = m_cntxts[c]
                             /\ io'[c] = io[c]
                             /\ lastEv'[c] = lastEv[c]
          /\ (pc[w] \in CallbackPcs /\ pc'[w] # pc[w]) =>
                /\ UNCHANGED <<engineVars, m_fileOffset, dest, claimed>>
                /\ \A i \in 1 .. Len(io'[w]) :
                      io'[w][i].off = m_cntxts'[w].readOffset]_vars

\* two workers have each run completion routines on their own context
C33_Witness ==
    /\ m_numOfThreads >= 2
    /\ lastEv[1] = "write_completed" /\ lastEv[2] = "write_completed"
    /\ m_cntxts[1].readOffset # m_cntxts[2].readOffset
    /\ m_cntxts[1].completed /\ m_cntxts[2].completed

\* C34: in every state of a copy, from the call of StartCopy on,
\* 0 <= pendingIOs <= numThreads.
C34_PendingBounds ==
    result \in {"running", "copy_true", "copy_false"} =>
        (0 <= m_pendingIOs /\ m_pendingIOs <= m_numOfThreads)

\* every context of a copy by two or more workers has an operation counted
C34_Witness ==
    /\ result = "running" /\ m_numOfThreads >= 2
    /\ m_pendingIOs = m_numOfThreads
    /\ \E w \in ActiveWorkers : lastEv[w] = "write_submitted"

\* C35: every write submitted to the destination lies inside the
\* destination: offset + length <= destCapacity.
C35_WritesInsideDestination ==
    \A w \in Workers : \A i \in 1 .. Len(io[w]) :
        io[w][i].kind = "write" =>
            io[w][i].off + io[w][i].len <= m_destCapacity

\* C36: StartCopy launches workers only when the most recent Initialize
\* returned true and both handles are open; after a failed Initialize, also
\* one that follows a successful Initialize, StartCopy returns false and
\* starts no worker.
C36_LaunchOnlyAfterSuccessfulInitialize ==
    [][(ctl \in {"inited", "initfail"} /\ ctl' \notin {"inited", "initfail"})
          => \/ ctl = "inited" /\ m_hSrc = "open" /\ m_hDest = "open"
             \/ ctl' = "returned" /\ result' = "copy_false" /\ pc' = pc]_vars

\* C37: during a copy bytesReadTotal and bytesWrittenTotal never decrease,
\* bytesReadTotal never exceeds totalSize, bytesWrittenTotal never exceeds
\* paddedTotalSize, and when StartCopy returns success
\* bytesReadTotal = totalSize.
C37_ByteTotals ==
    /\ []((result = "running" \/ CopyRan) =>
            /\ 0 <= m_bytesReadTotal /\ m_bytesReadTotal <= m_srcFileSize
            /\ 0 <= m_bytesWrittenTotal
            /\ m_bytesWrittenTotal <= PaddedTotalSize)
    /\ [](result = "copy_true" => m_bytesReadTotal = m_srcFileSize)
    /\ [][result = "running" =>
            /\ m_bytesReadTotal' >= m_bytesReadTotal
            /\ m_bytesWrittenTotal' >= m_bytesWrittenTotal]_vars

\* a successful copy of two blocks by two workers, the last block padded
C37_Witness ==
    /\ result = "copy_true" /\ m_numOfThreads = 2 /\ Len(claimed) = 2
    /\ m_bytesReadTotal = m_srcFileSize
    /\ m_bytesWrittenTotal = PaddedTotalSize
    /\ PaddedTotalSize > m_srcFileSize

\* C38: during a copy fileOffset starts at 0, never decreases, is a multiple
\* of blockSize, and never exceeds
\* ceil(totalSize / blockSize) * blockSize + numThreads * blockSize.
C38_FileOffsetBounds ==
    /\ []((result = "running" \/ CopyRan) =>
            /\ m_fileOffset % m_blockSize = 0
            /\ 0 <= m_fileOffset
            /\ m_fileOffset <= (NumBlocks + m_numOfThreads) * m_blockSize)
    /\ [][/\ (result # "running" /\ result' = "running") => m_fileOffset' = 0
          /\ result = "running" =>
                \/ m_fileOffset' = m_fileOffset
                \/ m_fileOffset' = m_fileOffset + m_blockSize]_vars

\* every worker of a copy by two or more workers has made a claim beyond the
\* end of the source
C38_Witness ==
    /\ CopyRan /\ m_numOfThreads >= 2
    /\ Len(claimed) = NumBlocks
    /\ m_fileOffset = (NumBlocks + m_numOfThreads) * m_blockSize

\* C39: when OnReadCompletion is run for a successful read of n > 0 bytes,
\* n rounded up to the sector size is not larger than the buffer of the
\* context, so the callback never takes its "padded length does not fit"
\* branch (PaddedLen = 0).
C39_PaddingFitsBuffer ==
    \A w \in ActiveWorkers :
        (pc[w] = "rc_body" /\ loc[w].errCode = "SUCCESS" /\ loc[w].nBytes > 0)
        => /\ m_blockSize % m_destSectorSize = 0
           /\ RoundUp(loc[w].nBytes, m_destSectorSize) <= m_cntxts[w].bufSize
           /\ PaddedLen(loc[w].nBytes, m_destSectorSize, m_cntxts[w].bufSize)
                 = RoundUp(loc[w].nBytes, m_destSectorSize)

\* a read of a full block reported fewer bytes than requested, not a multiple
\* of the sector size, and the padding fills the buffer to its end
C39_Witness ==
    \E w \in ActiveWorkers :
        /\ pc[w] = "rc_body" /\ loc[w].errCode = "SUCCESS"
        /\ loc[w].nBytes > 0
        /\ loc[w].nBytes < ClaimLen(m_cntxts[w].readOffset)
        /\ loc[w].nBytes % m_destSectorSize # 0
        /\ RoundUp(loc[w].nBytes, m_destSectorSize) = m_cntxts[w].bufSize
====
